---------------------------- MODULE Spec2Model ----------------------------
(***************************************************************************)
(* Model of ManufacturingNet/shallow_learning_methods/logistic_regression  *)
(* (class LogRegression): the dataset fields, the interactive parameter    *)
(* collection of _create_model(), the run()/predict() lifecycle around the *)
(* scikit-learn collaborator, and the result accessors.                    *)
(*                                                                         *)
(* Conventions.                                                            *)
(*  - A Python value that may be None is a sequence: <<>> is None and      *)
(*    <<x>> is the value x.                                                *)
(*  - A float is the integer number of 1/10000 units (0.25 is 2500,        *)
(*    0.0001 is 1, 1.0 is 10000).                                          *)
(*  - A numpy array is its number of rows (shape[0]).                      *)
(*  - The values a fitted model and the scoring routines yield in the n-th *)
(*    call of run() are all the number n, so that a value can be traced to *)
(*    the run that produced it.                                            *)
(***************************************************************************)
EXTENDS Integers, Sequences, FiniteSets, TLC

VARIABLES
    attributes,        \* self.attributes
    labels,            \* self.labels
    test_size,         \* self.test_size
    cv,                \* self.cv
    regression,        \* self.regression
    classes_,          \* self.classes_
    coef_,             \* self.coef_
    intercept_,        \* self.intercept_
    n_iter_,           \* self.n_iter_
    accuracy,          \* self.accuracy
    roc_auc,           \* self.roc_auc
    cross_val_scores,  \* self.cross_val_scores
    coefficients,      \* self.coefficients (created by run(); <<>> = not yet created)
    intercept,         \* self.intercept    (created by run(); <<>> = not yet created)
    hp,                \* the locals penalty .. l1_ratio of _create_model()
    answer,            \* the last answer _create_model() examined ("" outside it)
    pc,                \* where run() is blocked: "idle" or the pending input() call
    lastOp,            \* the public method called last
    result,            \* what the last completed call returned
    raised,            \* whether the last completed call ended in an uncaught exception
    fault,             \* the collaborator routine that faulted in the last call, or "none"
    called,            \* the collaborator routines invoked by the last call
    runs,              \* the number of run() calls so far
    okRun,             \* the number of the last run() that reached _output_results(), 0 if none
    changesLeft        \* how many more configuration values the operator will change

fields == <<attributes, labels, test_size, cv, regression, classes_, coef_, intercept_,
            n_iter_, accuracy, roc_auc, cross_val_scores, coefficients, intercept>>
locals == <<hp, answer>>
observed == <<lastOp, result, raised, fault, called, runs, okRun, changesLeft>>
vars == <<fields, locals, pc, observed>>

None == <<>>

(***************************************************************************)
(* Bounds of the model.                                                    *)
(***************************************************************************)
MaxRows == 2        \* datasets have 1..MaxRows rows
MaxRuns == 2        \* run() is called at most MaxRuns times
MaxLifecycleChanges == 0  \* values the operator changes from their defaults, under Spec
MaxChanges == 2     \* values the operator changes from their defaults, under SpecCollect

(***************************************************************************)
(* Defaults set by _create_model().                                        *)
(***************************************************************************)
DefaultTestSize == 2500
DefaultTol == 1
DefaultC == 10000
DefaultInterceptScaling == 10000
DefaultMaxIter == 100
DefaultVerbose == 0

\* What the operator may type at an input() call.
Tokens == {"", "q", "Q", "n", "y", "3", "0.5", "abc"}

\* str.lower() on the tokens.
Lower(u) == CASE u = "Q" -> "q"
              [] u = "N" -> "n"
              [] u = "Y" -> "y"
              [] OTHER -> u

\* float(u): <<value>>, or None when float() raises ValueError.
ParseFloat(u) == CASE u = "3" -> <<30000>>
                   [] u = "0.5" -> <<5000>>
                   [] OTHER -> None

\* int(u): <<value>>, or None when int() raises ValueError ("0.5" is no int literal).
ParseInt(u) == CASE u = "3" -> <<3>>
                 [] OTHER -> None

\* The prompts of the while loop, in the order of the code.
Order == <<"test_size", "cv", "penalty", "dual", "tol", "C", "fit_intercept",
           "intercept_scaling", "class_weight", "random_state", "solver", "max_iter",
           "multi_class", "verbose", "warm_start", "n_jobs", "l1_ratio">>

HpFields == {Order[i] : i \in 3..Len(Order)}

\* The locals after "# Set defaults".
LocalDefaults ==
    [penalty |-> "l2", dual |-> FALSE, tol |-> DefaultTol, C |-> DefaultC,
     fit_intercept |-> TRUE, intercept_scaling |-> DefaultInterceptScaling,
     class_weight |-> None, random_state |-> None, solver |-> "lbfgs",
     max_iter |-> DefaultMaxIter, multi_class |-> "auto", verbose |-> DefaultVerbose,
     warm_start |-> FALSE, n_jobs |-> None, l1_ratio |-> None]

\* The parameters of LogisticRegression() called without arguments.
SklearnDefaults ==
    [penalty |-> "l2", dual |-> FALSE, tol |-> 1, C |-> 10000,
     fit_intercept |-> TRUE, intercept_scaling |-> 10000,
     class_weight |-> None, random_state |-> None, solver |-> "lbfgs",
     max_iter |-> 100, multi_class |-> "auto", verbose |-> 0,
     warm_start |-> FALSE, n_jobs |-> None, l1_ratio |-> None]

\* LogisticRegression(**p): an unfitted estimator.
LogisticRegression(p) == <<[params |-> p, fitted |-> FALSE]>>

\* The configuration being collected: self.test_size, self.cv and the locals.
Cfg == [f \in {"test_size", "cv"} \cup HpFields |->
          IF f = "test_size" THEN test_size ELSE IF f = "cv" THEN cv ELSE hp[f]]

Keep(c) == [c |-> c, brk |-> FALSE]
Quit(c) == [c |-> c, brk |-> TRUE]

(***************************************************************************)
(* One operator per prompt of the while loop: the configuration after the  *)
(* answer u, and whether the loop is left by a break.                      *)
(***************************************************************************)
\* AskTestSize comparing the answer with "q" without lower().
AskTestSizeCaseSensitive(c, u) ==
    IF ParseFloat(u) # None THEN Keep([c EXCEPT !.test_size = ParseFloat(u)])
    ELSE IF u = "q" THEN Quit(c) ELSE Keep(c)

AskTestSize(c, u) ==
    IF ParseFloat(u) # None THEN Keep([c EXCEPT !.test_size = ParseFloat(u)])
    ELSE IF Lower(u) = "q" THEN Quit(c) ELSE Keep(c)

AskCv(c, u) ==
    IF ParseInt(u) # None THEN Keep([c EXCEPT !.cv = ParseInt(u)])
    ELSE IF Lower(u) = "q" THEN Quit(c) ELSE Keep(c)

AskPenalty(c, u) ==
    IF Lower(u) = "q" THEN Quit(c)
    ELSE IF u = "1" THEN Keep([c EXCEPT !.penalty = "l1"])
    ELSE IF u = "3" THEN Keep([c EXCEPT !.penalty = "elasticnet"])
    ELSE IF u = "4" THEN Keep([c EXCEPT !.penalty = "none"])
    ELSE Keep(c)

AskDual(c, u) ==
    LET d == IF Lower(u) = "y" THEN [c EXCEPT !.dual = TRUE] ELSE c
    IN  IF Lower(u) = "q" THEN Quit(d) ELSE Keep(d)

AskTol(c, u) ==
    IF ParseFloat(u) # None THEN Keep([c EXCEPT !.tol = ParseFloat(u)[1]])
    ELSE IF Lower(u) = "q" THEN Quit(c) ELSE Keep(c)

AskC(c, u) ==
    IF ParseFloat(u) # None THEN Keep([c EXCEPT !.C = ParseFloat(u)[1]])
    ELSE IF Lower(u) = "q" THEN Quit(c) ELSE Keep(c)

AskFitIntercept(c, u) ==
    LET d == IF Lower(u) = "n" THEN [c EXCEPT !.fit_intercept = FALSE] ELSE c
    IN  IF Lower(u) = "q" THEN Quit(d) ELSE Keep(d)

AskInterceptScaling(c, u) ==
    IF ParseFloat(u) # None THEN Keep([c EXCEPT !.intercept_scaling = ParseFloat(u)[1]])
    ELSE IF Lower(u) = "q" THEN Quit(c) ELSE Keep(c)

AskClassWeight(c, u) ==
    LET d == IF Lower(u) = "y" THEN [c EXCEPT !.class_weight = <<"balanced">>] ELSE c
    IN  IF Lower(u) = "q" THEN Quit(d) ELSE Keep(d)

AskRandomState(c, u) ==
    IF ParseInt(u) # None THEN Keep([c EXCEPT !.random_state = ParseInt(u)])
    ELSE IF Lower(u) = "q" THEN Quit(c) ELSE Keep(c)

AskSolver(c, u) ==
    IF Lower(u) = "q" THEN Quit(c)
    ELSE IF u = "1" THEN Keep([c EXCEPT !.solver = "newton-cg"])
    ELSE IF u = "3" THEN Keep([c EXCEPT !.solver = "liblinear"])
    ELSE IF u = "4" THEN Keep([c EXCEPT !.solver = "sag"])
    ELSE IF u = "5" THEN Keep([c EXCEPT !.solver = "saga"])
    ELSE Keep(c)

AskMaxIter(c, u) ==
    IF ParseInt(u) # None THEN Keep([c EXCEPT !.max_iter = ParseInt(u)[1]])
    ELSE IF Lower(u) = "q" THEN Quit(c) ELSE Keep(c)

AskMultiClass(c, u) ==
    IF Lower(u) = "q" THEN Quit(c)
    ELSE IF u = "1" THEN Keep([c EXCEPT !.multi_class = "ovr"])
    ELSE IF u = "2" THEN Keep([c EXCEPT !.multi_class = "multinomial"])
    ELSE Keep(c)

AskVerbose(c, u) ==
    LET d == IF Lower(u) = "y" THEN [c EXCEPT !.verbose = 1] ELSE c
    IN  IF Lower(u) = "q" THEN Quit(d) ELSE Keep(d)

AskWarmStart(c, u) ==
    LET d == IF Lower(u) = "y" THEN [c EXCEPT !.warm_start = TRUE] ELSE c
    IN  IF Lower(u) = "q" THEN Quit(d) ELSE Keep(d)

\* AskNJobs leaving the loop on every failed parse, as the last prompt does.
AskNJobsBreaks(c, u) ==
    IF ParseInt(u) # None THEN Keep([c EXCEPT !.n_jobs = ParseInt(u)])
    ELSE Quit(c)

AskNJobs(c, u) ==
    IF ParseInt(u) # None THEN Keep([c EXCEPT !.n_jobs = ParseInt(u)])
    ELSE IF Lower(u) = "q" THEN Quit(c) ELSE Keep(c)

\* The last prompt: a failed parse breaks, a successful one falls to the final break.
AskL1Ratio(c, u) ==
    IF ParseFloat(u) # None THEN Quit([c EXCEPT !.l1_ratio = ParseFloat(u)])
    ELSE Quit(c)

\* The input() call the loop reaches after prompt f was answered without a break,
\* c being the configuration after the answer.
Following(f, c) ==
    CASE f = "test_size" -> "cv"
      [] f = "cv" -> "penalty"
      [] f = "penalty" -> "dual"
      [] f = "dual" -> "tol"
      [] f = "tol" -> "C"
      [] f = "C" -> "fit_intercept"
      [] f = "fit_intercept" -> IF c.fit_intercept THEN "intercept_scaling" ELSE "class_weight"
      [] f = "intercept_scaling" -> "class_weight"
      [] f = "class_weight" -> "random_state"
      [] f = "random_state" -> "solver"
      [] f = "solver" -> "max_iter"
      [] f = "max_iter" -> "multi_class"
      [] f = "multi_class" -> "verbose"
      [] f = "verbose" -> "warm_start"
      [] f = "warm_start" -> "n_jobs"
      [] f = "n_jobs" -> IF c.penalty = "elasticnet" THEN "l1_ratio" ELSE "pause"
      [] OTHER -> "pause"

\* The operator of prompt f.
Ask(f, c, u) ==
    CASE f = "test_size" -> AskTestSize(c, u)
      [] f = "cv" -> AskCv(c, u)
      [] f = "penalty" -> AskPenalty(c, u)
      [] f = "dual" -> AskDual(c, u)
      [] f = "tol" -> AskTol(c, u)
      [] f = "C" -> AskC(c, u)
      [] f = "fit_intercept" -> AskFitIntercept(c, u)
      [] f = "intercept_scaling" -> AskInterceptScaling(c, u)
      [] f = "class_weight" -> AskClassWeight(c, u)
      [] f = "random_state" -> AskRandomState(c, u)
      [] f = "solver" -> AskSolver(c, u)
      [] f = "max_iter" -> AskMaxIter(c, u)
      [] f = "multi_class" -> AskMultiClass(c, u)
      [] f = "verbose" -> AskVerbose(c, u)
      [] f = "warm_start" -> AskWarmStart(c, u)
      [] f = "n_jobs" -> AskNJobs(c, u)
      [] f = "l1_ratio" -> AskL1Ratio(c, u)

\* One pass through the pending input() call of the while loop, answered by any
\* token.  The operator changes at most changesLeft more values.
Prompt ==
    /\ \E i \in 1..Len(Order) : pc = Order[i]
    /\ \E u \in Tokens : \E r \in {Ask(pc, Cfg, u)} :
           /\ r.c # Cfg => changesLeft > 0
           /\ changesLeft' = IF r.c # Cfg THEN changesLeft - 1 ELSE changesLeft
           /\ test_size' = r.c.test_size
           /\ cv' = r.c.cv
           /\ hp' = [g \in HpFields |-> r.c[g]]
           /\ pc' = IF r.brk THEN "pause" ELSE Following(pc, r.c)
           /\ answer' = u
    /\ UNCHANGED <<attributes, labels, regression, classes_, coef_, intercept_, n_iter_,
                   accuracy, roc_auc, cross_val_scores, coefficients, intercept>>
    /\ UNCHANGED <<lastOp, result, raised, fault, called, runs, okRun>>

(***************************************************************************)
(* The dataset and its validation.                                         *)
(***************************************************************************)
Datasets == {None} \cup {<<n>> : n \in 1..MaxRows}

\* _check_inputs() without the comparison of the row counts.
CheckInputsIgnoringRows(a, l) == a # None /\ l # None

\* _check_inputs(): attributes present, labels present, equal shape[0].
CheckInputs(a, l) == a # None /\ l # None /\ a[1] = l[1]

set_attributes ==
    /\ pc = "idle"
    /\ \E new_attributes \in Datasets : attributes' = new_attributes
    /\ lastOp' = "set_attributes"
    /\ result' = None /\ raised' = FALSE /\ fault' = "none" /\ called' = {}
    /\ UNCHANGED <<labels, test_size, cv, regression, classes_, coef_, intercept_, n_iter_,
                   accuracy, roc_auc, cross_val_scores, coefficients, intercept>>
    /\ UNCHANGED <<locals, pc, runs, okRun, changesLeft>>

set_labels ==
    /\ pc = "idle"
    /\ \E new_labels \in Datasets : labels' = new_labels
    /\ lastOp' = "set_labels"
    /\ result' = None /\ raised' = FALSE /\ fault' = "none" /\ called' = {}
    /\ UNCHANGED <<attributes, test_size, cv, regression, classes_, coef_, intercept_, n_iter_,
                   accuracy, roc_auc, cross_val_scores, coefficients, intercept>>
    /\ UNCHANGED <<locals, pc, runs, okRun, changesLeft>>

(***************************************************************************)
(* run(): from the call to the first input() of _create_model().           *)
(***************************************************************************)
run ==
    /\ pc = "idle"
    /\ runs < MaxRuns
    /\ runs' = runs + 1
    /\ lastOp' = "run"
    /\ result' = None /\ raised' = FALSE /\ fault' = "none" /\ called' = {}
    /\ pc' = IF CheckInputs(attributes, labels) THEN "use_defaults" ELSE "idle"
    /\ UNCHANGED <<fields, locals, okRun, changesLeft>>

\* The default branch taken only on an explicit "y".
TakesDefaultsOnlyOnY(u) == Lower(u) = "y"

\* Whether the answer to "Use default parameters (Y/n)?" takes the default branch.
TakesDefaults(u) == Lower(u) # "n"

\* The answer to "Use default parameters (Y/n)?"; on "n" the defaults are set and
\* the loop reaches its first input().
UseDefaults ==
    /\ pc = "use_defaults"
    /\ \E u \in Tokens :
         /\ answer' = u
         /\ IF TakesDefaults(u)
              THEN /\ test_size' = <<DefaultTestSize>>
                   /\ cv' = None
                   /\ hp' = hp
                   /\ pc' = "pause_default"
              ELSE /\ test_size' = <<DefaultTestSize>>
                   /\ cv' = None
                   /\ hp' = LocalDefaults
                   /\ pc' = "test_size"
    /\ UNCHANGED <<attributes, labels, regression, classes_, coef_, intercept_, n_iter_,
                   accuracy, roc_auc, cross_val_scores, coefficients, intercept>>
    /\ UNCHANGED <<lastOp, result, raised, fault, called, runs, okRun, changesLeft>>

\* What _create_model() returns on the default branch.
DefaultModel == LogisticRegression(SklearnDefaults)

\* What _create_model() returns after the loop, p being the locals.
CollectedModel(p) == LogisticRegression(p)

\* "press any key to continue" on the default branch; _create_model() returns and
\* run() stores the estimator.  The answer is discarded.
PauseDefault ==
    /\ pc = "pause_default"
    /\ regression' = DefaultModel
    /\ answer' = ""
    /\ pc' = "training"
    /\ UNCHANGED <<attributes, labels, test_size, cv, classes_, coef_, intercept_, n_iter_,
                   accuracy, roc_auc, cross_val_scores, coefficients, intercept>>
    /\ UNCHANGED <<hp, lastOp, result, raised, fault, called, runs, okRun, changesLeft>>

\* "press any key to continue" after the loop; _create_model() returns (its locals
\* are gone) and run() stores the estimator.  The answer is discarded.
Pause ==
    /\ pc = "pause"
    /\ regression' = CollectedModel(hp)
    /\ hp' = LocalDefaults
    /\ answer' = ""
    /\ pc' = "training"
    /\ UNCHANGED <<attributes, labels, test_size, cv, classes_, coef_, intercept_, n_iter_,
                   accuracy, roc_auc, cross_val_scores, coefficients, intercept>>
    /\ UNCHANGED <<lastOp, result, raised, fault, called, runs, okRun, changesLeft>>

(***************************************************************************)
(* run(): from train_test_split to _output_results().                      *)
(***************************************************************************)
\* The collaborator routines run() calls, in the order of the calls.
Stages == <<"train_test_split", "fit", "predict", "predict_proba",
            "accuracy_score", "roc_auc_score", "cross_val_score">>

\* The position of the routine that faults; past the end when none does.
StageIdx(f) == IF f = "none" THEN Len(Stages) + 1
               ELSE CHOOSE i \in 1..Len(Stages) : Stages[i] = f

\* The instance fields run() writes.
Self == [regression |-> regression, classes_ |-> classes_, coef_ |-> coef_,
         intercept_ |-> intercept_, n_iter_ |-> n_iter_, accuracy |-> accuracy,
         roc_auc |-> roc_auc, cross_val_scores |-> cross_val_scores,
         coefficients |-> coefficients, intercept |-> intercept]

\* TrainAndScore without "self.regression = None" in the except branch.
TrainAndScoreKeepsHandle(s, f, v) ==
    LET n == StageIdx(f) IN
    IF n <= 2 THEN [s |-> s, raised |-> n = 1]
    ELSE [s |-> [regression |-> <<[s.regression[1] EXCEPT !.fitted = TRUE]>>,
                 classes_ |-> <<v>>,
                 coef_ |-> s.coef_,
                 intercept_ |-> s.intercept_,
                 coefficients |-> <<v>>,
                 intercept |-> <<v>>,
                 n_iter_ |-> <<v>>,
                 accuracy |-> IF n > 5 THEN <<v>> ELSE s.accuracy,
                 roc_auc |-> IF n > 6 THEN <<v>> ELSE s.roc_auc,
                 cross_val_scores |-> IF n > 7 THEN <<v>> ELSE s.cross_val_scores],
          raised |-> n <= Len(Stages)]

\* The fields after the rest of run(), when routine f faults (or none does) and the
\* collaborator's values are v; raised tells whether the fault left run() uncaught.
TrainAndScore(s, f, v) ==
    LET n == StageIdx(f) IN
    IF n = 1 THEN [s |-> s, raised |-> TRUE]
    ELSE IF n = 2 THEN [s |-> [s EXCEPT !.regression = None], raised |-> FALSE]
    ELSE [s |-> [regression |-> <<[s.regression[1] EXCEPT !.fitted = TRUE]>>,
                 classes_ |-> <<v>>,
                 coef_ |-> s.coef_,
                 intercept_ |-> s.intercept_,
                 coefficients |-> <<v>>,
                 intercept |-> <<v>>,
                 n_iter_ |-> <<v>>,
                 accuracy |-> IF n > 5 THEN <<v>> ELSE s.accuracy,
                 roc_auc |-> IF n > 6 THEN <<v>> ELSE s.roc_auc,
                 cross_val_scores |-> IF n > 7 THEN <<v>> ELSE s.cross_val_scores],
          raised |-> n <= Len(Stages)]

Train ==
    /\ pc = "training"
    /\ \E f \in {Stages[i] : i \in 1..Len(Stages)} \cup {"none"} :
         \E r \in {TrainAndScore(Self, f, runs)} :
           /\ regression' = r.s.regression
           /\ classes_' = r.s.classes_
           /\ coef_' = r.s.coef_
           /\ intercept_' = r.s.intercept_
           /\ n_iter_' = r.s.n_iter_
           /\ accuracy' = r.s.accuracy
           /\ roc_auc' = r.s.roc_auc
           /\ cross_val_scores' = r.s.cross_val_scores
           /\ coefficients' = r.s.coefficients
           /\ intercept' = r.s.intercept
           /\ raised' = r.raised
           /\ fault' = f
           /\ called' = {Stages[i] : i \in 1..IF StageIdx(f) > Len(Stages)
                                               THEN Len(Stages) ELSE StageIdx(f)}
           /\ okRun' = IF f = "none" THEN runs ELSE okRun
    /\ pc' = "idle"
    /\ UNCHANGED <<attributes, labels, test_size, cv, locals, lastOp, result, runs, changesLeft>>

(***************************************************************************)
(* predict(dataset_X): accepted tells whether the estimator accepts        *)
(* dataset_X; an unfitted estimator accepts nothing (NotFittedError).      *)
(***************************************************************************)
PredictWith(reg, accepted) ==
    IF reg = None THEN [result |-> None, called |-> {}, fault |-> "none"]
    ELSE IF accepted /\ reg[1].fitted
         THEN [result |-> <<1>>, called |-> {"predict"}, fault |-> "none"]
         ELSE [result |-> None, called |-> {"predict"}, fault |-> "predict"]

predict ==
    /\ pc = "idle"
    /\ \E accepted \in BOOLEAN :
         LET r == PredictWith(regression, accepted) IN
           /\ result' = r.result
           /\ called' = r.called
           /\ fault' = r.fault
    /\ raised' = FALSE
    /\ lastOp' = "predict"
    /\ UNCHANGED <<fields, locals, pc, runs, okRun, changesLeft>>

(***************************************************************************)
(* The result accessors.  Each answers with what it returns, or raises.    *)
(***************************************************************************)
Get(name, value, attributeError) ==
    /\ lastOp' = name
    /\ result' = IF attributeError THEN None ELSE value
    /\ raised' = attributeError
    /\ fault' = "none" /\ called' = {}
    /\ UNCHANGED <<fields, locals, pc, runs, okRun, changesLeft>>

\* get_classes() reads self.classes, which no method of the class ever assigns.
get_classes ==
    /\ pc = "idle"
    /\ Get("get_classes", None, TRUE)
get_regression ==
    /\ pc = "idle"
    /\ Get("get_regression", regression, FALSE)
get_coefficents ==
    /\ pc = "idle"
    /\ Get("get_coefficents", coef_, FALSE)
get_n_iter_ ==
    /\ pc = "idle"
    /\ Get("get_n_iter_", n_iter_, FALSE)
get_accuracy ==
    /\ pc = "idle"
    /\ Get("get_accuracy", accuracy, FALSE)
get_roc_auc ==
    /\ pc = "idle"
    /\ Get("get_roc_auc", roc_auc, FALSE)
get_cross_val_scores ==
    /\ pc = "idle"
    /\ Get("get_cross_val_scores", cross_val_scores, FALSE)

(***************************************************************************)
(* The state after LogRegression(attributes, labels), and the behaviours.  *)
(***************************************************************************)
Init ==
    /\ attributes \in Datasets
    /\ labels \in Datasets
    /\ test_size = None /\ cv = None
    /\ regression = None
    /\ classes_ = None /\ coef_ = None /\ intercept_ = None /\ n_iter_ = None
    /\ accuracy = None /\ roc_auc = None /\ cross_val_scores = None
    /\ coefficients = None /\ intercept = None
    /\ hp = LocalDefaults /\ answer = ""
    /\ pc = "idle"
    /\ lastOp = "__init__" /\ result = None /\ raised = FALSE
    /\ fault = "none" /\ called = {}
    /\ runs = 0 /\ okRun = 0 /\ changesLeft = MaxLifecycleChanges

Next ==
    \/ set_attributes \/ set_labels
    \/ run \/ UseDefaults \/ PauseDefault
    \/ Prompt \/ Pause \/ Train
    \/ predict

Spec == Init /\ [][Next]_vars

(***************************************************************************)
(* The accessors: the behaviours of run() and the result accessors on the  *)
(* dataset given to the constructor.                                       *)
(***************************************************************************)
NextAccess ==
    \/ run \/ UseDefaults \/ PauseDefault \/ Prompt \/ Pause \/ Train
    \/ get_classes \/ get_regression \/ get_coefficents \/ get_n_iter_
    \/ get_accuracy \/ get_roc_auc \/ get_cross_val_scores

SpecAccess == Init /\ [][NextAccess]_vars

(***************************************************************************)
(* Parameter collection alone: the behaviours of one run() from its first  *)
(* input() on, called on a dataset that passed _check_inputs().            *)
(***************************************************************************)
InitCollect ==
    /\ \E n \in 1..MaxRows : attributes = <<n>> /\ labels = <<n>>
    /\ test_size = None /\ cv = None
    /\ regression = None
    /\ classes_ = None /\ coef_ = None /\ intercept_ = None /\ n_iter_ = None
    /\ accuracy = None /\ roc_auc = None /\ cross_val_scores = None
    /\ coefficients = None /\ intercept = None
    /\ hp = LocalDefaults /\ answer = ""
    /\ pc = "use_defaults"
    /\ lastOp = "run" /\ result = None /\ raised = FALSE
    /\ fault = "none" /\ called = {}
    /\ runs = 1 /\ okRun = 0 /\ changesLeft = MaxChanges

NextCollect == UseDefaults \/ Prompt \/ PauseDefault \/ Pause \/ Train

SpecCollect == InitCollect /\ [][NextCollect]_vars

(***************************************************************************)
(* Properties.                                                             *)
(***************************************************************************)
\* The dataset fails validation: a part is absent or the row counts differ.
InvalidDataset == attributes = None \/ labels = None \/ attributes[1] # labels[1]

Metrics == <<classes_, coef_, intercept_, n_iter_, accuracy, roc_auc, cross_val_scores>>

\* C1 as stated: after run() on a dataset that fails validation, no collaborator
\* routine was invoked, no prompt was issued (run() is back at "idle") and the
\* model handle is absent.
C1_InvalidRunLeavesHandleAbsent ==
    (lastOp = "run" /\ pc = "idle" /\ InvalidDataset)
        => (called = {} /\ regression = None)

\* C1 amended: a run() called on a dataset that fails validation returns at once
\* without invoking a collaborator routine or issuing a prompt, raises nothing,
\* and leaves the model handle and every other field as they were before the call.
C1_InvalidRunChangesNothing ==
    [][(pc = "idle" /\ runs' = runs + 1 /\ InvalidDataset)
          => (pc' = "idle" /\ called' = {} /\ fault' = "none" /\ ~raised'
              /\ regression' = regression /\ UNCHANGED fields)]_vars

C1_Witness ==
    /\ lastOp = "run" /\ pc = "idle"
    /\ attributes # None /\ labels # None /\ attributes # labels
    /\ regression # None

\* C2: while no run() has completed successfully, predict() returns no result and
\* does not invoke the collaborator's predict routine.
C2_PredictOnlyWhenFitted ==
    (lastOp = "predict" /\ okRun = 0) => (result = None /\ "predict" \notin called)

\* C3 as stated: after a run() whose fit routine faulted, run() has returned
\* normally, the model handle is absent and all result metrics are unset.
C3_FitFaultLeavesMetricsUnset ==
    (lastOp = "run" /\ pc = "idle" /\ fault = "fit")
        => (~raised /\ regression = None
            /\ classes_ = None /\ coef_ = None /\ intercept_ = None /\ n_iter_ = None
            /\ accuracy = None /\ roc_auc = None /\ cross_val_scores = None)

\* C3 amended: a run() whose fit routine faults returns normally with the model
\* handle absent and every result metric as it was before the call.
C3_FitFaultKeepsMetrics ==
    [][(pc = "training" /\ fault' = "fit")
          => (pc' = "idle" /\ ~raised' /\ regression' = None /\ UNCHANGED Metrics)]_vars

C3_Witness ==
    /\ lastOp = "run" /\ pc = "idle" /\ fault = "fit"
    /\ regression = None /\ classes_ # None /\ accuracy # None

\* C4: no fault of a collaborator routine leaves run() or predict() uncaught.
C4_NoFaultPropagates ==
    (pc = "idle" /\ lastOp \in {"run", "predict"}) => ~raised

\* C5: after a run() on a valid dataset with the default configuration in which no
\* collaborator routine faulted, the model handle and the fields the constructor
\* initialised for classes, coefficients, intercept, iteration counts, accuracy,
\* ROC-AUC and cross-validation scores are all populated.
C5_SuccessPopulatesResults ==
    (lastOp = "run" /\ pc = "idle" /\ fault = "none" /\ "fit" \in called
     /\ test_size = <<DefaultTestSize>> /\ cv = None)
        => (regression # None
            /\ classes_ # None /\ coef_ # None /\ intercept_ # None /\ n_iter_ # None
            /\ accuracy # None /\ roc_auc # None /\ cross_val_scores # None)

\* C6: each result accessor returns (without raising) the current value of its
\* result: None while run() has not been called, and after a successful run() the
\* value that run() obtained (the fitted model for get_regression).
C6_AccessorsReturnResults ==
    LET Getters == {"get_classes", "get_regression", "get_coefficents", "get_n_iter_",
                    "get_accuracy", "get_roc_auc", "get_cross_val_scores"}
    IN  lastOp \in Getters =>
          /\ ~raised
          /\ runs = 0 => result = None
          /\ (okRun > 0 /\ okRun = runs) =>
                IF lastOp = "get_regression"
                THEN result # None /\ result = regression
                ELSE result = <<okRun>>

\* The default of every field of the configuration, as documented.
AllDefaults ==
    [test_size |-> <<2500>>, cv |-> None,
     penalty |-> "l2", dual |-> FALSE, tol |-> 1, C |-> 10000,
     fit_intercept |-> TRUE, intercept_scaling |-> 10000,
     class_weight |-> None, random_state |-> None, solver |-> "lbfgs",
     max_iter |-> 100, multi_class |-> "auto", verbose |-> 0,
     warm_start |-> FALSE, n_jobs |-> None, l1_ratio |-> None]

HyperPrompts == {Order[i] : i \in 1..Len(Order)}
IndexOf(f) == CHOOSE i \in 1..Len(Order) : Order[i] = f

\* C7: the quit sentinel (either case) at any hyperparameter prompt ends the loop
\* with no further hyperparameter prompt; the configuration keeps the values
\* given before, holds the default in every field prompted at or after that
\* prompt, and is the configuration the estimator is built from.
C7_QuitKeepsEarlierAndDefaultsRest ==
    [][/\ (pc \in HyperPrompts /\ pc' # pc /\ Lower(answer') = "q")
            => /\ pc' = "pause"
               /\ Cfg' = Cfg
               /\ \A i \in IndexOf(pc)..Len(Order) : Cfg'[Order[i]] = AllDefaults[Order[i]]
       /\ (pc = "pause" /\ pc' # pc)
            => /\ pc' = "training"
               /\ regression' = <<[params |-> hp, fitted |-> FALSE]>>
               /\ test_size' = test_size /\ cv' = cv]_vars

C7_Witness ==
    pc = "pause" /\ answer = "Q" /\ test_size = <<5000>> /\ hp.penalty = "elasticnet"

\* C8 as stated: on a yes to "use defaults?" parameter collection returns the
\* default configuration at once, without any further prompt.
C8_YesReturnsWithoutPrompt ==
    [][(pc = "use_defaults" /\ pc' # pc /\ Lower(answer') # "n")
          => (pc' = "training"
              /\ test_size' = <<2500>> /\ cv' = None
              /\ regression' = <<[params |-> [g \in HpFields |-> AllDefaults[g]],
                                   fitted |-> FALSE]>>)]_vars

\* C8 amended: on any answer to "use defaults?" other than n or N, parameter
\* collection sets test fraction 0.25 and no fold count, issues no hyperparameter
\* prompt, reads one more input (the "press any key to continue" pause) and then
\* returns an estimator with every hyperparameter at its default.
C8_YesReturnsDefaultsAfterPause ==
    [][/\ (pc = "use_defaults" /\ pc' # pc /\ Lower(answer') # "n")
            => (pc' = "pause_default" /\ test_size' = <<2500>> /\ cv' = None)
       /\ (pc = "pause_default" /\ pc' # pc)
            => (pc' = "training"
                /\ test_size' = <<2500>> /\ cv' = None
                /\ regression' = <<[params |-> [g \in HpFields |-> AllDefaults[g]],
                                     fitted |-> FALSE]>>)]_vars

C8_Witness ==
    pc = "pause_default" /\ answer = "" /\ test_size = <<2500>> /\ cv = None

\* Whether answer u parses for prompt f.
Parses(f, u) ==
    CASE f \in {"test_size", "tol", "C", "intercept_scaling", "l1_ratio"} -> ParseFloat(u) # None
      [] f \in {"cv", "random_state", "max_iter", "n_jobs"} -> ParseInt(u) # None
      [] f = "penalty" -> u \in {"1", "2", "3", "4"}
      [] f = "solver" -> u \in {"1", "2", "3", "4", "5"}
      [] f = "multi_class" -> u \in {"1", "2", "3"}
      [] OTHER -> Lower(u) \in {"y", "n"}

\* Whether prompt g is issued under configuration c.
Gate(g, c) ==
    /\ g = "intercept_scaling" => c.fit_intercept
    /\ g = "l1_ratio" => c.penalty = "elasticnet"

\* The next prompt after f in the fixed order, or the closing pause.
NextInOrder(f, c) ==
    LET later == {j \in (IndexOf(f) + 1)..Len(Order) : Gate(Order[j], c)}
    IN  IF later = {} THEN "pause"
        ELSE Order[CHOOSE j \in later : \A k \in later : j <= k]

\* C9: an answer that neither parses for its prompt nor is the quit sentinel leaves
\* every field of the configuration as it was, raises nothing, and collection goes
\* on with the next prompt of the fixed order.
C9_MalformedAnswerChangesNothing ==
    [][(pc \in HyperPrompts /\ pc' # pc /\ ~Parses(pc, answer') /\ Lower(answer') # "q")
          => (Cfg' = Cfg /\ pc' = NextInOrder(pc, Cfg) /\ ~raised')]_vars

C9_Witness ==
    pc = "l1_ratio" /\ answer = "abc" /\ hp.n_jobs = None /\ test_size = <<5000>>

\* C10: the configuration handed to the split and cross-validation steps has a
\* test fraction strictly between 0 and 1 and a fold count absent or positive.
C10_ConfigurationInRange ==
    pc = "training" =>
        /\ test_size # None /\ 0 < test_size[1] /\ test_size[1] < 10000
        /\ cv = None \/ cv[1] > 0
=============================================================================
